---- MODULE Spec2Model ----
(***************************************************************************)
(* A model of cptool.py: a directory backup / diff / sync utility.         *)
(*                                                                         *)
(* The file system is a small universe of directories (Dirs).  A path is a *)
(* sequence of one-character tokens, a file's content is a sequence of     *)
(* tokens, and a directory holds the top-level entries named in Names.     *)
(* The backup repository (REPO) is a directory of zip archives, keyed by   *)
(* file name.  Operations that make several file-system calls are split in *)
(* steps (the variable call holds the running call's position); a call     *)
(* runs to its end before the next one starts (the program is              *)
(* single-threaded).                                                       *)
(***************************************************************************)
EXTENDS Integers, Sequences, FiniteSets, TLC

\* The wall clock datetime.now() reads for the keys takes the values
\* 1..MaxTick (one tick = one microsecond, the resolution of
\* DATETIME_FORMAT's %f field).
MaxTick == 3

\* A run makes at most MaxOps calls.
MaxOps == 3

BACKUP == ".cpbackup"

SYNC == ".cpsync"

SEPARATOR == <<"_", "o", "n", "_">>

ZipExt == <<".zip">>

SepChar == "/"

NewLine == "\n"

\* The directories of the universe: /a/b, /a_b and /s.
DirAB == <<"/", "a", "/", "b">>

DirA_B == <<"/", "a", "_", "b">>

DirS == <<"/", "s">>

Dirs == {DirAB, DirA_B, DirS}

\* The names a directory's top-level entries can have.
Names == {"f", "d", BACKUP, SYNC}

\* An entry of a directory: what it is, its content (for a subdirectory,
\* its whole tree) and, for a file, its modification time st_mtime.
NoEntry == [kind |-> "none", data |-> <<>>, mtime |-> 0]

FileEntry(data, mtime) == [kind |-> "file", data |-> data, mtime |-> mtime]

DirEntry(data) == [kind |-> "dir", data |-> data, mtime |-> 0]

NoEnts == [n \in Names |-> NoEntry]

NoDir == [exists |-> FALSE, ents |-> NoEnts]

VARIABLES fs, repoDir, repo, clock, call, done, run, walk, ops, tags

vars == <<fs, repoDir, repo, clock, call, done, run, walk, ops, tags>>

(***************************************************************************)
(* fs      : [Dirs -> [exists, ents]]  the directories and their entries   *)
(* repoDir : whether the directory REPO exists                             *)
(* repo    : the files of REPO: archive file name -> archive               *)
(* clock   : the last value read from the wall clock                       *)
(* call    : the call in progress (op = "idle" when none)                  *)
(* done    : the last call that returned or raised                         *)
(*           (in both, pre is the directory as the call found it, and, for *)
(*           the apply_diff under way or last made, diff is the names of   *)
(*           its diff and was the destination as it found it; given is the *)
(*           sources a generate_sync_file was called with, tag the tag of  *)
(*           a set_tag or resolve_tag, and had whether the index held the  *)
(*           tag when set_tag was called; manual is whether a revert was   *)
(*           called by manual_revert)                                      *)
(* run     : per directory d, the number of calls backup(d) that have      *)
(*           succeeded in a row, with no other call in between, since d    *)
(*           had no pointer file (-1 when d has a pointer file that such a *)
(*           row does not account for)                                     *)
(* walk    : the calls made so far are, at their end, successful calls     *)
(*           backup(walk.dir) in a row on a directory that had no pointer  *)
(*           file, followed by walk.reverts calls revert(walk.dir) without *)
(*           an explicit archive; walk.pres is the directory as each of    *)
(*           these backups found it                                        *)
(* ops     : the number of calls made so far                               *)
(* tags    : the tag index: tag -> (directory, archive)                    *)
(***************************************************************************)

---------------------------------------------------------------------------
\* Helpers

Min(a, b) == IF a < b THEN a ELSE b

\* os.path.isdir, over the model's universe of directories.
IsDir(p) == p \in Dirs /\ fs[p].exists

\* os.path.isfile(os.path.join(directory, name))
IsFileIn(p, n) == IsDir(p) /\ fs[p].ents[n].kind = "file"

\* os.listdir: the names of the entries of an existing directory.
ListDir(p) == {n \in Names : fs[p].ents[n].kind # "none"}

\* check_dir: the error it raises, "ok" when the directory exists.
check_dir(p, message) == IF IsDir(p) THEN "ok" ELSE message

\* path.replace(os.path.sep, '_')
ReplaceSep(p) == [i \in 1..Len(p) |-> IF p[i] = SepChar THEN "_" ELSE p[i]]

\* strftime(DATETIME_FORMAT) of the clock value t: only the microsecond
\* field varies in the model.
Strftime(t) ==
    <<"Thu", "_", "Oct", "_", "29", "_", "2026", "_",
      "20", "_", "09", "_", "00", "_", "00000" \o ToString(t)>>

encode_dir_name(directory, t) == ReplaceSep(directory) \o SEPARATOR \o Strftime(t)

\* os.path.isfile(os.path.join(REPO, name))
IsArchiveFile(name) == repoDir /\ name \in DOMAIN repo

\* file.readline(): up to and including the first newline.
ReadLine(data) ==
    LET ends == {i \in 1..Len(data) : data[i] = NewLine}
    IN  IF ends = {} THEN data
        ELSE SubSeq(data, 1, CHOOSE i \in ends : \A j \in ends : i <= j)

\* str.splitlines() of a file's content.
RECURSIVE SplitLines(_)
SplitLines(data) ==
    IF data = <<>> THEN <<>>
    ELSE LET line == ReadLine(data)
             rest == SubSeq(data, Len(line) + 1, Len(data))
         IN  IF line[Len(line)] = NewLine
             THEN <<SubSeq(line, 1, Len(line) - 1)>> \o SplitLines(rest)
             ELSE <<line>>

\* The items of a list.
ItemsOf(list) == {list[i] : i \in 1..Len(list)}

\* The orders a set of names can be listed in.
RECURSIVE Orders(_)
Orders(S) ==
    IF S = {} THEN {<<>>}
    ELSE UNION {{<<n>> \o o : o \in Orders(S \ {n})} : n \in S}

---------------------------------------------------------------------------
\* The records of calls

Idle ==
    [op |-> "idle", phase |-> "", dir |-> <<>>, src |-> <<>>, auto |-> FALSE,
     srcs |-> <<>>, todo |-> <<>>, arch |-> <<>>, snaps |-> 0, copies |-> 0,
     fresh |-> TRUE, err |-> "ok", pre |-> NoDir, diff |-> {}, was |-> NoDir,
     given |-> <<>>, tag |-> "", had |-> FALSE, manual |-> FALSE,
     list |-> <<>>]

Begin(op, phase, dir) ==
    [Idle EXCEPT !.op = op, !.phase = phase, !.dir = dir,
                 !.pre = IF dir \in Dirs THEN fs[dir] ELSE NoDir,
                 !.was = IF dir \in Dirs THEN fs[dir] ELSE NoDir]

Returned(c, err) == [c EXCEPT !.phase = "", !.err = err, !.todo = <<>>, !.srcs = <<>>]

\* The call c ends with err: it becomes the last call.
Finish(c, err) ==
    /\ call' = Idle
    /\ done' = Returned(c, err)

\* A call can start: none is running.
CanCall == call.op = "idle" /\ ops < MaxOps

\* The call goes on as c.
Continue(c) ==
    /\ call' = c
    /\ UNCHANGED done

---------------------------------------------------------------------------
\* Backup

\* The values datetime.now() can return: the clock has not moved since it
\* was last read, or it has advanced by a tick.
ClockReads == clock .. Min(clock + 1, MaxTick)

\* The latest modification time of the files in the directories.
LastWrite ==
    LET times == {fs[d].ents[n].mtime : d \in Dirs, n \in Names} IN
    CHOOSE m \in times : \A t \in times : t <= m

\* The modification time of a file the program writes (the pointer file,
\* a copy, an extracted file, the manifest): the st_mtime the file system
\* gives it, which is later than that of every file there is.  It is not
\* the time datetime.now() returns for a key.
WriteTime == LastWrite + 1

\* The file name of the archive make_archive writes for the key name.
ArchiveFile(name) == name \o ZipExt

\* The assertion of backup that the archive does not exist yet: it tests
\* archive_path, the path without the ".zip" that make_archive appends.
ArchivePathFree(name) == ~IsArchiveFile(name)

\* shutil.make_archive(archive_path, "zip", directory): the whole tree of
\* the directory, its marker files included.  of is the directory archived
\* and ctime the time the archive file was written.
make_archive(directory, t) ==
    [ents |-> fs[directory].ents, of |-> directory, ctime |-> t]

\* backup: the exception it ends with, "ok" when it returns.
BackupErr(directory, t) ==
    IF ~ArchivePathFree(encode_dir_name(directory, t)) THEN "AssertionError"
    ELSE IF ~IsDir(directory) THEN "OSError: make_archive"
    ELSE "ok"

\* Whether backup at time t writes an archive file that did not exist.
BackupFresh(directory, t) ==
    ~IsArchiveFile(ArchiveFile(encode_dir_name(directory, t)))

\* A backup that writes the archive's file name into the pointer file.
PointerEntryWithExt(name, t) == FileEntry(name \o ZipExt, t)

\* The pointer file backup writes, with the modification time t.
PointerEntry(name, t) == FileEntry(name, t)

\* backup(directory) with the clock reading t: the effect on the
\* repository and the directory.
DoBackup(directory, t) ==
    LET name == encode_dir_name(directory, t) IN
    /\ clock' = t
    /\ repoDir' = TRUE
    /\ IF BackupErr(directory, t) = "ok"
       THEN /\ repo' = [k \in DOMAIN repo \cup {ArchiveFile(name)} |->
                          IF k = ArchiveFile(name)
                          THEN make_archive(directory, t) ELSE repo[k]]
            /\ fs' = [fs EXCEPT ![directory].ents[BACKUP] =
                                   PointerEntry(name, WriteTime)]
       ELSE UNCHANGED <<fs, repo>>

\* The directory d has a pointer file in the file system f.
HasPointer(f, d) == f[d].ents[BACKUP].kind # "none"

\* A step of a call other than a successful direct backup: no row of
\* backups is under way.
RunReset ==
    run' = [x \in Dirs |-> IF HasPointer(fs', x) THEN -1 ELSE 0]

\* No row of backups followed by reverts is under way.
NoWalk == [dir |-> <<>>, pres |-> <<>>, reverts |-> 0]

\* A step of a call other than a direct backup or a revert.
WalkReset == walk' = NoWalk

\* A direct call backup(d).
Backup(d) ==
    /\ UNCHANGED tags
    /\ CanCall
    /\ ops' = ops + 1
    /\ \E t \in ClockReads :
         /\ DoBackup(d, t)
         /\ Finish([Begin("backup", "", d) EXCEPT
                      !.snaps = IF BackupErr(d, t) = "ok" THEN 1 ELSE 0,
                      !.fresh = BackupErr(d, t) = "ok" => BackupFresh(d, t)],
                   BackupErr(d, t))
         /\ run' = [x \in Dirs |->
                      IF x = d /\ BackupErr(d, t) = "ok" /\ run[d] >= 0
                      THEN run[d] + 1
                      ELSE IF HasPointer(fs', x) THEN -1 ELSE 0]
         /\ walk' = IF BackupErr(d, t) # "ok" THEN NoWalk
                    ELSE IF walk.dir = d /\ walk.reverts = 0
                    THEN [walk EXCEPT !.pres = Append(@, fs[d])]
                    ELSE IF ~HasPointer(fs, d)
                    THEN [dir |-> d, pres |-> <<fs[d]>>, reverts |-> 0]
                    ELSE NoWalk

---------------------------------------------------------------------------
\* Revert

\* The archive name that stands for "no archive_name given" (None).
NoArchive == <<>>

\* An archive file name that is not in the repository.
MissingArchive == <<"gone">> \o ZipExt

\* get_archive_name: the exception it raises, "ok" when it returns.
GetArchiveErr(directory) ==
    IF ~IsDir(directory) THEN "AssertionError"
    ELSE IF ~IsFileIn(directory, BACKUP) THEN "CpException: backup file missing"
    ELSE IF ReadLine(fs[directory].ents[BACKUP].data) = <<>> THEN "AssertionError"
    ELSE "ok"

\* get_archive_name: the archive file name the pointer file gives.
get_archive_name(directory) == ReadLine(fs[directory].ents[BACKUP].data) \o ZipExt

\* revert, up to the test that the archive exists: the archive file name
\* it settles on.
RevertArchive(directory, archive_name) ==
    IF archive_name = NoArchive THEN get_archive_name(directory) ELSE archive_name

\* A revert that does not test that the archive exists.
RevertErrNoArchiveTest(directory, archive_name) ==
    IF check_dir(directory, "CpException: directory missing") # "ok"
    THEN "CpException: directory missing"
    ELSE IF archive_name = NoArchive /\ GetArchiveErr(directory) # "ok"
    THEN GetArchiveErr(directory)
    ELSE "ok"

\* revert, up to the test that the archive exists: the exception raised,
\* "ok" when the directory is about to be removed.
RevertErr(directory, archive_name) ==
    IF check_dir(directory, "CpException: directory missing") # "ok"
    THEN "CpException: directory missing"
    ELSE IF archive_name = NoArchive /\ GetArchiveErr(directory) # "ok"
    THEN GetArchiveErr(directory)
    ELSE IF ~IsArchiveFile(RevertArchive(directory, archive_name))
    THEN "CpException: archive unavailable"
    ELSE "ok"

\* ZipFile.extractall(directory) after rmtree, at the time t: the entries
\* of the archive, its files written anew (extraction does not restore the
\* modification times); an archive without entries creates nothing, not
\* even the directory.
extractall(archive, t) ==
    IF archive.ents = NoEnts THEN NoDir
    ELSE [exists |-> TRUE,
          ents |-> [n \in Names |->
                      IF archive.ents[n].kind = "file"
                      THEN FileEntry(archive.ents[n].data, t)
                      ELSE archive.ents[n]]]

\* revert(d, archive_name), first step: lines 81-87; manual tells the call
\* that manual_revert makes from the direct one.
RevertCall(d, archive_name, manual) ==
    /\ UNCHANGED tags
    /\ walk' = IF archive_name # NoArchive \/ walk.dir # d THEN NoWalk
               ELSE IF RevertErr(d, archive_name) = "ok" THEN walk
               ELSE [walk EXCEPT !.reverts = @ + 1]
    /\ IF RevertErr(d, archive_name) = "ok"
       THEN Continue([Begin("revert", "rmtree", d) EXCEPT
                        !.arch = RevertArchive(d, archive_name),
                        !.auto = archive_name = NoArchive,
                        !.manual = manual])
       ELSE Finish([Begin("revert", "", d) EXCEPT
                      !.arch = IF archive_name = NoArchive
                                  /\ GetArchiveErr(d) = "ok"
                                  /\ IsDir(d)
                               THEN get_archive_name(d) ELSE archive_name,
                      !.auto = archive_name = NoArchive,
                      !.manual = manual],
                   RevertErr(d, archive_name))
    /\ UNCHANGED <<fs, repoDir, repo, clock>>
    /\ RunReset

\* A call of revert when no call is running.
RevertStart(d, archive_name, manual) ==
    /\ CanCall
    /\ ops' = ops + 1
    /\ RevertCall(d, archive_name, manual)

\* A direct call revert(d, archive_name).
RevertBegin(d, archive_name) == RevertStart(d, archive_name, FALSE)

\* A revert that archives the directory before it removes it.
RevertRmtreeWithSnapshot ==
    /\ UNCHANGED <<ops, tags, walk>>
    /\ call.op = "revert" /\ call.phase = "rmtree"
    /\ fs' = [fs EXCEPT ![call.dir] = NoDir]
    /\ repo' = [k \in DOMAIN repo \cup {ArchiveFile(encode_dir_name(call.dir, clock))} |->
                 IF k = ArchiveFile(encode_dir_name(call.dir, clock))
                 THEN make_archive(call.dir, clock) ELSE repo[k]]
    /\ RunReset
    /\ Continue([call EXCEPT !.phase = "extract"])
    /\ UNCHANGED <<repoDir, clock>>

\* revert, second step: shutil.rmtree(directory).
RevertRmtree ==
    /\ UNCHANGED <<tags, walk>>
    /\ UNCHANGED ops
    /\ call.op = "revert" /\ call.phase = "rmtree"
    /\ fs' = [fs EXCEPT ![call.dir] = NoDir]
    /\ RunReset
    /\ Continue([call EXCEPT !.phase = "extract"])
    /\ UNCHANGED <<repoDir, repo, clock>>

\* revert, last step: the archive is opened and extracted into the
\* directory (ZipFile raises IOError when the file is not there).
RevertExtract ==
    /\ UNCHANGED tags
    /\ walk' = IF walk = NoWalk THEN NoWalk ELSE [walk EXCEPT !.reverts = @ + 1]
    /\ UNCHANGED ops
    /\ call.op = "revert" /\ call.phase = "extract"
    /\ IF IsArchiveFile(call.arch)
       THEN /\ fs' = [fs EXCEPT ![call.dir] =
                        extractall(repo[call.arch], WriteTime)]
            /\ Finish(call, "ok")
       ELSE /\ UNCHANGED fs
            /\ Finish(call, "IOError: ZipFile")
    /\ RunReset
    /\ UNCHANGED <<repoDir, repo, clock>>

---------------------------------------------------------------------------
\* Archive names and manual revert

\* The position of the first occurrence of sep in s, 0 when there is none.
FirstAt(s, sep) ==
    LET at == {i \in 1..(Len(s) - Len(sep) + 1) : SubSeq(s, i, i + Len(sep) - 1) = sep}
    IN  IF at = {} THEN 0 ELSE CHOOSE i \in at : \A j \in at : i <= j

\* str.split(sep)
RECURSIVE Split(_, _)
Split(s, sep) ==
    LET i == FirstAt(s, sep) IN
    IF i = 0 THEN <<s>>
    ELSE <<SubSeq(s, 1, i - 1)>> \o Split(SubSeq(s, i + Len(sep), Len(s)), sep)

\* os.path.splitext(name)[0]: the name up to its last extension.
splitext(name) ==
    LET dots == {i \in 2..Len(name) : name[i] \in {".", ".zip"}}
    IN  IF dots = {} THEN name
        ELSE SubSeq(name, 1, (CHOOSE i \in dots : \A j \in dots : j <= i) - 1)

\* path.replace("_", os.path.sep)
ReplaceUnderscore(p) == [i \in 1..Len(p) |-> IF p[i] = "_" THEN SepChar ELSE p[i]]

\* datetime.strptime(when, DATETIME_FORMAT): the clock value, 0 when the
\* text does not match the format (ValueError).
strptime(when) ==
    IF \E t \in 1..MaxTick : Strftime(t) = when
    THEN CHOOSE t \in 1..MaxTick : Strftime(t) = when
    ELSE 0

\* decode_dir_name(name): the pair it returns, or the exception (the split
\* that does not give two parts, the time that does not parse).
decode_dir_name(name) ==
    LET parts == Split(splitext(name), SEPARATOR) IN
    IF Len(parts) # 2 \/ strptime(parts[Len(parts)]) = 0
    THEN [err |-> "ValueError", path |-> <<>>, when |-> 0]
    ELSE [err |-> "ok", path |-> ReplaceUnderscore(parts[1]),
          when |-> strptime(parts[2])]

\* The directory paths names are made of and decoded to: those of the
\* universe, and paths with "_on_" and "/on/" in them.
Paths ==
    Dirs \cup {<<"/", "a", "_", "o", "n", "_", "b">>, <<"/", "o", "n", "/", "b">>}

\* decode_dir_name(encode_dir_name(p) + ".zip") for a path p.
DecodeName(p) ==
    /\ WalkReset
    /\ CanCall
    /\ ops' = ops + 1
    /\ \E t \in ClockReads :
         /\ clock' = t
         /\ LET name == encode_dir_name(p, t) \o ZipExt IN
            Finish([Begin("decode", "", decode_dir_name(name).path) EXCEPT
                      !.src = p, !.arch = name],
                   decode_dir_name(name).err)
    /\ UNCHANGED <<fs, repoDir, repo, tags>>
    /\ RunReset

\* manual_revert, lines 156-163, up to the prompt: the exception raised.
\* Every archive of the repository is decoded for the list before the
\* selection is read.
ManualRevertErr ==
    IF ~repoDir THEN "CpException: repository missing"
    ELSE IF DOMAIN repo = {} THEN "CpException: repository empty"
    ELSE IF \E k \in DOMAIN repo : decode_dir_name(k).err # "ok"
    THEN "ValueError: decode"
    ELSE "ok"

\* int(user_input) on the one character read: the index, or no index when
\* the character is not a digit or the input has ended.
int(user_input) ==
    IF user_input = "0" THEN [err |-> "ok", value |-> 0]
    ELSE IF user_input = "1" THEN [err |-> "ok", value |-> 1]
    ELSE IF user_input = "9" THEN [err |-> "ok", value |-> 9]
    ELSE [err |-> "ValueError: int", value |-> -1]

---------------------------------------------------------------------------
\* Diffs

\* filecmp.dircmp(src, dst).left_only
LeftOnly(src, dst) == ListDir(src) \ ListDir(dst)

\* filecmp._sig: the signature (type, size, modification time) of a file.
Sig(e) == <<e.kind, Len(e.data), e.mtime>>

\* filecmp.cmp(a, b), shallow: files of equal signatures are taken to be
\* equal without a look at their contents; otherwise files of different
\* sizes differ and those of equal sizes are compared by content.
cmp(a, b) ==
    IF Sig(a) = Sig(b) THEN TRUE
    ELSE IF Len(a.data) # Len(b.data) THEN FALSE
    ELSE a.data = b.data

\* filecmp.dircmp(src, dst).diff_files: the names that are regular files
\* on both sides and that cmp finds different.
DiffFiles(src, dst) ==
    {n \in ListDir(src) \cap ListDir(dst) :
        /\ fs[src].ents[n].kind = "file"
        /\ fs[dst].ents[n].kind = "file"
        /\ ~cmp(fs[src].ents[n], fs[dst].ents[n])}

\* The names find_diff(src, dst) returns.
DiffNames(src, dst) ==
    IF IsDir(dst) THEN LeftOnly(src, dst) \cup DiffFiles(src, dst)
    ELSE ListDir(src)

\* find_diff(src, dst): the lists it can return (the order within
\* left_only, within diff_files and of os.listdir is not fixed).
find_diff(src, dst) ==
    IF IsDir(dst)
    THEN {lo \o df : lo \in Orders(LeftOnly(src, dst)),
                     df \in Orders(DiffFiles(src, dst))}
    ELSE Orders(ListDir(src))

\* find_diff raises OSError when src cannot be listed.
FindDiffErr(src, dst) == IF IsDir(src) THEN "ok" ELSE "OSError: listdir"

\* The copy of one item of the diff (lines 130-135): the exception raised.
CopyErr(src, dst, item) ==
    IF fs[src].ents[item].kind = "dir"
    THEN IF IsDir(dst) /\ fs[dst].ents[item].kind # "none"
         THEN "OSError: copytree" ELSE "ok"
    ELSE IF fs[src].ents[item].kind = "none" \/ ~IsDir(dst)
         THEN "IOError: copy" ELSE "ok"

\* A copy that puts the item in place of the destination's entries.
CopyItemReplacing(src, dst, item, t) ==
    [exists |-> TRUE, ents |-> [NoEnts EXCEPT ![item] = fs[src].ents[item]]]

\* The copy of one item of the diff at the time t: the destination
\* directory after it.  copytree makes the destination's parents and keeps
\* the times of the tree (copy2); copy writes a new file, and into an
\* existing directory entry puts the file inside it, over the file of that
\* name when the directory holds one.
CopyItem(src, dst, item, t) ==
    LET e == fs[src].ents[item] IN
    IF e.kind = "dir"
    THEN [exists |-> TRUE, ents |-> [fs[dst].ents EXCEPT ![item] = e]]
    ELSE IF fs[dst].ents[item].kind = "dir"
    THEN [fs[dst] EXCEPT !.ents[item].data =
                            IF item \in ItemsOf(@) THEN @ ELSE @ \o <<item>>]
    ELSE [fs[dst] EXCEPT !.ents[item] = FileEntry(e.data, t)]

\* An apply_diff that copies without taking its snapshot.
AfterDiffNoSnapshot(auto_backup) == "copy"

\* The phase apply_diff enters with a non-empty diff (lines 126-129).
AfterDiff(auto_backup) == IF auto_backup THEN "snapshot" ELSE "copy"

\* The default of the parameter diff_list of apply_diff.
None == <<"None">>

\* The lists apply_diff can go on with (lines 124-125): the one it was
\* given or, given None, one that find_diff returns.
DiffLists(s, d, diff_list) ==
    IF diff_list = None THEN find_diff(s, d) ELSE {diff_list}

\* apply_diff(s, d, diff_list, auto_backup), first step, lines 124-127:
\* the diff is computed unless it was given, and an empty one ends the call.
ApplyCall(s, d, diff_list, auto_backup) ==
    /\ UNCHANGED tags
    /\ WalkReset
    /\ IF diff_list = None /\ FindDiffErr(s, d) # "ok"
       THEN Finish([Begin("apply", "", d) EXCEPT
                      !.src = s, !.auto = auto_backup, !.list = diff_list],
                   FindDiffErr(s, d))
       ELSE \E l \in DiffLists(s, d, diff_list) :
              IF l = <<>>
              THEN Finish([Begin("apply", "", d) EXCEPT
                             !.src = s, !.auto = auto_backup,
                             !.list = diff_list], "ok")
              ELSE Continue([Begin("apply", AfterDiff(auto_backup), d) EXCEPT
                               !.src = s, !.auto = auto_backup,
                               !.list = diff_list,
                               !.todo = l,
                               !.diff = ItemsOf(l)])
    /\ UNCHANGED <<fs, repoDir, repo, clock>>
    /\ RunReset

\* A direct call apply_diff(s, d, diff_list, auto_backup).
ApplyBegin(s, d, diff_list, auto_backup) ==
    /\ CanCall
    /\ ops' = ops + 1
    /\ ApplyCall(s, d, diff_list, auto_backup)

\* The phase after the snapshot of a call: apply_diff goes on to copy its
\* diff, sync (which has no diff yet) to its first source.
AfterSnapshot(todo) == IF todo = <<>> THEN "source" ELSE "copy"

\* backup(dst) in apply_diff (line 128), backup(directory) in sync (line 197).
Snapshot ==
    /\ UNCHANGED tags
    /\ WalkReset
    /\ UNCHANGED ops
    /\ call.phase = "snapshot"
    /\ \E t \in ClockReads :
         /\ DoBackup(call.dir, t)
         /\ IF BackupErr(call.dir, t) = "ok"
            THEN Continue([call EXCEPT
                             !.phase = AfterSnapshot(call.todo),
                             !.snaps = @ + 1,
                             !.fresh = BackupFresh(call.dir, t)])
            ELSE Finish(call, BackupErr(call.dir, t))
    /\ RunReset

\* What follows the copy of the last item of a diff: apply_diff returns,
\* sync goes on to its next source.
AfterCopy(c) ==
    IF c.todo # <<>> THEN Continue(c)
    ELSE IF c.op = "sync" THEN Continue([c EXCEPT !.phase = "source"])
    ELSE Finish(c, "ok")

\* One pass of the loop of apply_diff (lines 129-135).
Copy ==
    /\ UNCHANGED tags
    /\ WalkReset
    /\ UNCHANGED ops
    /\ call.phase = "copy"
    /\ LET item == Head(call.todo) IN
       IF CopyErr(call.src, call.dir, item) = "ok"
       THEN /\ fs' = [fs EXCEPT ![call.dir] =
                        CopyItem(call.src, call.dir, item, WriteTime)]
            /\ RunReset
            /\ AfterCopy([call EXCEPT !.todo = Tail(@), !.copies = @ + 1])
       ELSE /\ Finish(call, CopyErr(call.src, call.dir, item))
            /\ UNCHANGED fs
            /\ RunReset
    /\ UNCHANGED <<repoDir, repo, clock>>

\* The explicit lists apply_diff is called with: none of the names, one
\* that is in a directory of the universe, one that may not be.
ExplicitLists == {<<>>, <<"f">>, <<"d">>}

\* exec_diff(s, d), lines 142-145 and 151-152: the diff is computed and
\* printed, and the call waits for the answer; without a diff it returns.
ExecDiffBegin(s, d) ==
    /\ UNCHANGED tags
    /\ WalkReset
    /\ CanCall
    /\ ops' = ops + 1
    /\ IF FindDiffErr(s, d) # "ok"
       THEN Finish([Begin("exec_diff", "", d) EXCEPT !.src = s],
                   FindDiffErr(s, d))
       ELSE \E diff_list \in find_diff(s, d) :
              IF diff_list = <<>>
              THEN Finish([Begin("exec_diff", "", d) EXCEPT !.src = s], "ok")
              ELSE Continue([Begin("exec_diff", "confirm", d) EXCEPT
                               !.src = s, !.list = diff_list])
    /\ UNCHANGED <<fs, repoDir, repo, clock>>
    /\ RunReset

\* The characters sys.stdin.read(1) can return: a letter in either case,
\* a digit, something else, or nothing at the end of the input.
Chars == {"y", "Y", "n", "0", "1", "9", ""}

\* str.lower on one character.
lower(c) == IF c = "Y" THEN "y" ELSE c

\* exec_diff, lines 146-150: the answer is read; on "y" the list computed
\* before the wait is applied, with the snapshot of the destination.
ExecDiffConfirm(confirm) ==
    /\ UNCHANGED ops
    /\ call.op = "exec_diff" /\ call.phase = "confirm"
    /\ IF lower(confirm) = "y"
       THEN ApplyCall(call.src, call.dir, call.list, TRUE)
       ELSE /\ Finish(call, "ok")
            /\ UNCHANGED <<fs, repoDir, repo, clock, tags>>
            /\ WalkReset
            /\ RunReset

---------------------------------------------------------------------------
\* Sync

\* generate_sync_file: the content writelines gives the manifest.
RECURSIVE writelines(_)
writelines(lines) ==
    IF lines = <<>> THEN <<>> ELSE Head(lines) \o writelines(Tail(lines))

\* os.path.abspath of a path of the universe (all are absolute and normal).
abspath(p) == p

\* The source lists generate_sync_file is called with.
SourceLists == {<<DirS>>, <<DirS, DirA_B>>}

GenerateErr(directory, sources) ==
    IF ~(IsDir(directory) /\ Len(sources) > 0) THEN "AssertionError"
    ELSE IF \E i \in 1..Len(sources) : ~IsDir(sources[i])
    THEN "CpException: invalid source dir"
    ELSE "ok"

\* generate_sync_file(d, sources)
GenerateSyncFile(d, sources) ==
    /\ UNCHANGED tags
    /\ WalkReset
    /\ CanCall
    /\ ops' = ops + 1
    /\ IF GenerateErr(d, sources) = "ok"
       THEN /\ fs' = [fs EXCEPT ![d].ents[SYNC] =
                        FileEntry(writelines([i \in 1..Len(sources) |->
                                                 abspath(sources[i])]),
                                  WriteTime)]
            /\ RunReset
       ELSE /\ UNCHANGED fs
            /\ RunReset
    /\ Finish([Begin("mksync", "", d) EXCEPT !.given = sources],
              GenerateErr(d, sources))
    /\ UNCHANGED <<repoDir, repo, clock>>

\* sync, lines 188-192: the sources the manifest lists.
SyncSources(directory) == SplitLines(fs[directory].ents[SYNC].data)

\* A sync that does not validate the sources its manifest lists.
SyncErrNoSourceCheck(directory) ==
    IF ~IsFileIn(directory, SYNC) THEN "CpException: sync file missing"
    ELSE IF SyncSources(directory) = <<>> THEN "CpException: sync file empty"
    ELSE "ok"

\* sync, lines 188-196: the exception raised before the snapshot.
SyncErr(directory) ==
    IF ~IsFileIn(directory, SYNC) THEN "CpException: sync file missing"
    ELSE IF SyncSources(directory) = <<>> THEN "CpException: sync file empty"
    ELSE IF \E i \in 1..Len(SyncSources(directory)) :
               ~IsDir(SyncSources(directory)[i])
    THEN "CpException: invalid source dir"
    ELSE "ok"

\* The phase sync enters once its sources are validated (line 197).
AfterValidate == "snapshot"

\* sync(d), first step: the manifest is read and validated.
SyncBegin(d) ==
    /\ UNCHANGED tags
    /\ WalkReset
    /\ CanCall
    /\ ops' = ops + 1
    /\ IF SyncErr(d) = "ok"
       THEN Continue([Begin("sync", AfterValidate, d) EXCEPT
                        !.srcs = SyncSources(d)])
       ELSE Finish(Begin("sync", "", d), SyncErr(d))
    /\ UNCHANGED <<fs, repoDir, repo, clock>>
    /\ RunReset

\* A sync that leaves auto_backup at its default.
SyncAutoBackupDefault == TRUE

\* The auto_backup argument sync passes to apply_diff (line 199).
SyncAutoBackup == FALSE

\* sync, lines 198-199: apply_diff(src, directory, auto_backup=False) for
\* the next source; the pass of a source with an empty diff copies nothing.
SyncSource ==
    /\ UNCHANGED tags
    /\ WalkReset
    /\ UNCHANGED ops
    /\ call.op = "sync" /\ call.phase = "source"
    /\ IF call.srcs = <<>>
       THEN Finish(call, "ok")
       ELSE IF FindDiffErr(Head(call.srcs), call.dir) # "ok"
       THEN Finish(call, FindDiffErr(Head(call.srcs), call.dir))
       ELSE \E diff_list \in find_diff(Head(call.srcs), call.dir) :
              Continue([call EXCEPT
                          !.src = Head(call.srcs),
                          !.srcs = Tail(@),
                          !.todo = diff_list,
                          !.diff = ItemsOf(diff_list),
                          !.was = fs[call.dir],
                          !.phase = IF diff_list = <<>> THEN "source"
                                    ELSE AfterDiff(SyncAutoBackup)])
    /\ UNCHANGED <<fs, repoDir, repo, clock>>
    /\ RunReset

---------------------------------------------------------------------------
\* History

\* The loop of backup_history (lines 101-108) from the archive file name:
\* the entries appended and how the loop ends.  seen holds the archives
\* already visited: the loop that comes back to one of them never ends.
RECURSIVE HistoryFrom(_, _)
HistoryFrom(archive_name, seen) ==
    IF ~IsArchiveFile(archive_name) THEN [err |-> "OSError: getctime", hist |-> <<>>]
    ELSE IF archive_name \in seen THEN [err |-> "never returns", hist |-> <<>>]
    ELSE LET archive == repo[archive_name]
             entry == [path |-> archive_name, ctime |-> archive.ctime]
             rest == HistoryFrom(archive.ents[BACKUP].data \o ZipExt,
                                 seen \cup {archive_name})
         IN  IF archive.ents[BACKUP].kind = "file"
             THEN [err |-> rest.err, hist |-> <<entry>> \o rest.hist]
             ELSE [err |-> "ok", hist |-> <<entry>>]

\* A backup_history that stops at an archive that is not there and
\* returns what it has.
backup_history_truncating(directory) ==
    IF check_dir(directory, "CpException: directory missing") # "ok"
    THEN [err |-> "CpException: directory missing", hist |-> <<>>]
    ELSE IF GetArchiveErr(directory) = "AssertionError"
    THEN [err |-> "AssertionError", hist |-> <<>>]
    ELSE IF GetArchiveErr(directory) # "ok"
    THEN [err |-> "ok", hist |-> <<>>]
    ELSE LET h == HistoryFrom(get_archive_name(directory), {}) IN
         IF h.err = "OSError: getctime" THEN [err |-> "ok", hist |-> h.hist] ELSE h

\* backup_history(directory): the list returned, or the exception raised.
backup_history(directory) ==
    IF check_dir(directory, "CpException: directory missing") # "ok"
    THEN [err |-> "CpException: directory missing", hist |-> <<>>]
    ELSE IF GetArchiveErr(directory) = "AssertionError"
    THEN [err |-> "AssertionError", hist |-> <<>>]
    ELSE IF GetArchiveErr(directory) # "ok"
    THEN [err |-> "ok", hist |-> <<>>]
    ELSE HistoryFrom(get_archive_name(directory), {})

---------------------------------------------------------------------------
\* The specification

\* An existing directory with the entries f (a file), d (a subdirectory)
\* and m (a hand-written sync manifest); NoEntry for an entry it lacks.
MkDir(f, d, m) ==
    [exists |-> TRUE,
     ents |-> [n \in Names |->
                 IF n = "f" THEN f ELSE IF n = "d" THEN d
                 ELSE IF n = SYNC THEN m ELSE NoEntry]]

\* A manifest of two lines, /s and /a/b.
TwoSources == FileEntry(DirS \o <<NewLine>> \o DirAB \o <<NewLine>>, 1)

\* The directories before the first call: no pointer files, an empty
\* repository.  /s is a source with content, /a/b a destination that is
\* empty or has content of its own, /a_b does not exist or pulls from
\* the other two.  The files f of /s and /a/b are of one size and were
\* last written at the same time 0, the files of /a_b later, at 1.
InitS ==
    {MkDir(FileEntry(<<"v1">>, 0), DirEntry(<<"t1">>), NoEntry)}

InitAB ==
    {MkDir(NoEntry, NoEntry, NoEntry),
     MkDir(FileEntry(<<"v2">>, 0), DirEntry(<<"t2">>), NoEntry)}

InitA_B ==
    {NoDir, MkDir(FileEntry(<<"v2">>, 1), NoEntry, TwoSources)}

\* The (source, destination) pairs apply_diff is called with: between /s
\* and /a/b in both directions, and from /s into /a_b, which may not exist.
ApplyPairs == {<<DirS, DirAB>>, <<DirAB, DirS>>, <<DirS, DirA_B>>}

Init ==
    /\ \E s \in InitS, ab \in InitAB, a_b \in InitA_B :
         fs = [d \in Dirs |-> IF d = DirS THEN s ELSE IF d = DirAB THEN ab ELSE a_b]
    /\ repoDir = FALSE
    /\ repo = <<>>
    /\ clock = 1
    /\ call = Idle
    /\ done = Idle
    /\ run = [d \in Dirs |-> 0]
    /\ walk = NoWalk
    /\ ops = 0
    /\ tags = <<>>

Next ==
    \/ \E d \in Dirs : Backup(d)
    \/ \E d \in Dirs, a \in {NoArchive, MissingArchive} \cup DOMAIN repo :
         RevertBegin(d, a)
    \/ RevertRmtree
    \/ RevertExtract
    \/ \E p \in ApplyPairs, b \in BOOLEAN : ApplyBegin(p[1], p[2], None, b)
    \/ Snapshot
    \/ Copy
    \/ \E l \in SourceLists : GenerateSyncFile(DirAB, l)
    \/ \E d \in Dirs : SyncBegin(d)
    \/ SyncSource

Spec == Init /\ [][Next]_vars

\* The repository cleanup that the program leaves to its user: an archive
\* is deleted between two calls.
Cleanup(a) ==
    /\ UNCHANGED tags
    /\ WalkReset
    /\ CanCall
    /\ ops' = ops + 1
    /\ repo' = [k \in DOMAIN repo \ {a} |-> repo[k]]
    /\ Finish([Begin("cleanup", "", <<>>) EXCEPT !.arch = a], "ok")
    /\ UNCHANGED <<fs, repoDir, clock>>
    /\ RunReset

NextCleanup ==
    \/ Next
    \/ \E a \in DOMAIN repo : Cleanup(a)

\* The program with archives deleted from the repository behind its back.
SpecCleanup == Init /\ [][NextCleanup]_vars

\* The pointer files a directory can be found with when its pointer file
\* was not written by backup: none, an empty one, one whose content is not
\* a key, and one that holds a key (of an archive that is not there).
PointerFiles ==
    {NoEntry, FileEntry(<<>>, 1), FileEntry(<<"junk">>, 1),
     FileEntry(encode_dir_name(DirS, 1), 1)}

\* The directory dir with the pointer file p.
WithPointer(dir, p) ==
    IF dir.exists THEN [dir EXCEPT !.ents[BACKUP] = p] ELSE dir

\* The directories before the first call, with pointer files of any
\* content.
InitPointer ==
    /\ \E s \in InitS, ab \in InitAB, a_b \in InitA_B :
       \E ps \in PointerFiles, pab \in PointerFiles, pa_b \in PointerFiles :
         fs = [d \in Dirs |-> IF d = DirS THEN WithPointer(s, ps)
                              ELSE IF d = DirAB THEN WithPointer(ab, pab)
                              ELSE WithPointer(a_b, pa_b)]
    /\ repoDir = FALSE
    /\ repo = <<>>
    /\ clock = 1
    /\ call = Idle
    /\ done = Idle
    /\ run = [d \in Dirs |-> IF HasPointer(fs, d) THEN -1 ELSE 0]
    /\ walk = NoWalk
    /\ ops = 0
    /\ tags = <<>>

\* backup and revert without an explicit archive.
NextPointer ==
    \/ \E d \in Dirs : Backup(d)
    \/ \E d \in Dirs : RevertBegin(d, NoArchive)
    \/ RevertRmtree
    \/ RevertExtract

\* backup and revert on directories whose pointer files have any content.
SpecPointer == InitPointer /\ [][NextPointer]_vars

---------------------------------------------------------------------------
\* The tag index

\* The tags callers use.
Tags == {"v1", "v2"}

\* set_tag requires the directory to exist and the archive to be there.
SetTagErr(directory, archive_location) ==
    IF ~IsDir(directory) THEN "DirectoryMissing"
    ELSE IF ~IsArchiveFile(archive_location) THEN "ArchiveMissing"
    ELSE "ok"

\* An upsert that keeps the record a tag already has.
UpsertKeepFirst(index, tag, record) ==
    [t \in DOMAIN index \cup {tag} |-> IF t \in DOMAIN index THEN index[t] ELSE record]

\* The index after the upsert of the record under the tag.
Upsert(index, tag, record) ==
    [t \in DOMAIN index \cup {tag} |-> IF t = tag THEN record ELSE index[t]]

\* set_tag(tag, directory, archive_location)
SetTag(tag, directory, archive_location) ==
    /\ WalkReset
    /\ CanCall
    /\ ops' = ops + 1
    /\ tags' = IF SetTagErr(directory, archive_location) = "ok"
               THEN Upsert(tags, tag, [directory |-> directory,
                                       archive |-> archive_location])
               ELSE tags
    /\ Finish([Begin("set_tag", "", directory) EXCEPT
                  !.tag = tag, !.arch = archive_location,
                  !.had = tag \in DOMAIN tags],
              SetTagErr(directory, archive_location))
    /\ UNCHANGED <<fs, repoDir, repo, clock>>
    /\ RunReset

\* resolve_tag(tag): the pair it returns, or TagNotFound.
resolve_tag(tag) ==
    IF tag \in DOMAIN tags
    THEN [err |-> "ok", directory |-> tags[tag].directory,
          archive |-> tags[tag].archive]
    ELSE [err |-> "TagNotFound", directory |-> <<>>, archive |-> <<>>]

\* A call resolve_tag(tag).
ResolveTag(tag) ==
    /\ WalkReset
    /\ CanCall
    /\ ops' = ops + 1
    /\ Finish([Begin("resolve_tag", "", resolve_tag(tag).directory) EXCEPT
                  !.tag = tag, !.arch = resolve_tag(tag).archive],
              resolve_tag(tag).err)
    /\ UNCHANGED <<fs, repoDir, repo, clock, tags>>
    /\ RunReset

\* manual_revert, lines 156-163: the archives of the repository are
\* listed, in the order os.listdir gives them, and the call waits for the
\* selection.
ManualRevertBegin ==
    /\ CanCall
    /\ ops' = ops + 1
    /\ IF ManualRevertErr = "ok"
       THEN \E backup_list \in Orders(DOMAIN repo) :
              Continue([Begin("manual_revert", "select", <<>>) EXCEPT
                          !.srcs = backup_list, !.manual = TRUE])
       ELSE Finish([Begin("manual_revert", "", <<>>) EXCEPT !.manual = TRUE],
                   ManualRevertErr)
    /\ UNCHANGED <<fs, repoDir, repo, clock, tags>>
    /\ WalkReset
    /\ RunReset

\* manual_revert, lines 164-170: the selection is read as one character
\* and converted; an index of the list reverts the directory its archive
\* name decodes to.
ManualRevertSelect(user_input) ==
    /\ UNCHANGED ops
    /\ call.op = "manual_revert" /\ call.phase = "select"
    /\ IF int(user_input).err = "ok" /\ int(user_input).value < Len(call.srcs)
       THEN LET archive_path == call.srcs[int(user_input).value + 1] IN
            RevertCall(decode_dir_name(archive_path).path, archive_path, TRUE)
       ELSE /\ Finish(call, IF int(user_input).err # "ok"
                            THEN int(user_input).err
                            ELSE "CpException: invalid selection")
            /\ UNCHANGED <<fs, repoDir, repo, clock, tags>>
            /\ WalkReset
            /\ RunReset

\* While manual_revert waits for the selection, an archive is deleted
\* from the repository.
CleanupAtPrompt(a) ==
    /\ UNCHANGED <<tags, call, done, clock, repoDir, fs>>
    /\ WalkReset
    /\ call.op = "manual_revert" /\ call.phase = "select"
    /\ ops < MaxOps
    /\ ops' = ops + 1
    /\ repo' = [k \in DOMAIN repo \ {a} |-> repo[k]]
    /\ RunReset

NextManual ==
    \/ \E d \in Dirs : Backup(d)
    \/ \E p \in Paths : DecodeName(p)
    \/ ManualRevertBegin
    \/ \E c \in Chars : ManualRevertSelect(c)
    \/ \E a \in DOMAIN repo : CleanupAtPrompt(a)
    \/ RevertRmtree
    \/ RevertExtract

\* Backups, the decoding of archive names and manual reverts.
SpecManual == Init /\ [][NextManual]_vars

\* While exec_diff waits for the answer, an entry that it listed is
\* removed from the source directory.
RemoveAtPrompt(n) ==
    /\ UNCHANGED <<tags, call, done, clock, repoDir, repo>>
    /\ WalkReset
    /\ call.op = "exec_diff" /\ call.phase = "confirm"
    /\ ops < MaxOps
    /\ ops' = ops + 1
    /\ fs[call.src].ents[n].kind # "none"
    /\ fs' = [fs EXCEPT ![call.src].ents[n] = NoEntry]
    /\ RunReset

\* The (source, destination) pairs of the diffs given and confirmed.
ConfirmPairs == {<<DirS, DirAB>>, <<DirS, DirA_B>>}

NextConfirm ==
    \/ \E p \in ConfirmPairs, l \in {None} \cup ExplicitLists, b \in BOOLEAN :
         ApplyBegin(p[1], p[2], l, b)
    \/ \E p \in ConfirmPairs : ExecDiffBegin(p[1], p[2])
    \/ \E c \in Chars : ExecDiffConfirm(c)
    \/ \E n \in ItemsOf(call.list) : RemoveAtPrompt(n)
    \/ Snapshot
    \/ Copy

\* The diffs applied: computed by the call, given to it, or
\* confirmed by the user after a wait.
SpecConfirm == Init /\ [][NextConfirm]_vars

NextTags ==
    \/ \E d \in Dirs : Backup(d)
    \/ \E t \in Tags, d \in Dirs, a \in {MissingArchive} \cup DOMAIN repo :
         SetTag(t, d, a)
    \/ \E t \in Tags : ResolveTag(t)

\* Backups, and the tag index over their archives.
SpecTags == Init /\ [][NextTags]_vars

---------------------------------------------------------------------------
\* The claims

\* The reserved marker names.
Reserved == {BACKUP, SYNC}

\* The contents of a directory: its entries and what they hold, whatever
\* the times its files were written at.
Contents(d) ==
    [exists |-> d.exists,
     ents |-> [n \in Names |-> [kind |-> d.ents[n].kind, data |-> d.ents[n].data]]]

\* C1: backup(D) immediately followed by revert(D) without an explicit
\* archive leaves D as it was when backup(D) was called: the step that ends
\* such a revert gives D the state the backup started from.
RoundTrip ==
    [][(/\ call.op = "revert" /\ call.phase = "extract" /\ call.auto
        /\ done.op = "backup" /\ done.err = "ok" /\ done.dir = call.dir)
       => Contents(fs'[call.dir]) = Contents(done.pre)]_vars

\* C2: after N >= 1 calls backup(D) in a row on a directory that had no
\* pointer file, backup_history(D) returns exactly N entries, strictly
\* newest first, and the archive of the last one holds no pointer file.
ChainIntegrity ==
    \A d \in Dirs :
        (call.op = "idle" /\ run[d] >= 1) =>
            LET h == backup_history(d) IN
            /\ h.err = "ok"
            /\ Len(h.hist) = run[d]
            /\ \A i \in 1..(Len(h.hist) - 1) : h.hist[i].ctime > h.hist[i + 1].ctime
            /\ repo[h.hist[Len(h.hist)].path].ents[BACKUP].kind = "none"

\* C3: the reserved marker names never appear in the result of find_diff,
\* whether the destination exists or not, and no running apply_diff or
\* sync has one of them in the diff it copies.
ReservedExcluded ==
    /\ \A s \in Dirs, d \in Dirs : IsDir(s) => DiffNames(s, d) \cap Reserved = {}
    /\ \A i \in 1..Len(call.todo) : call.todo[i] \notin Reserved

\* C4: apply_diff with auto_backup and a non-empty diff has taken its
\* snapshot when it starts to copy: before the first copy the pointer of
\* the destination names an archive of the destination as the call found
\* it, and nothing else in the destination has changed; an apply_diff whose
\* snapshot failed has copied nothing and has left the destination alone.
SnapshotBeforeCopy ==
    /\ (call.op = "apply" /\ call.auto /\ call.phase = "copy") =>
          /\ call.snaps = 1
          /\ call.copies = 0 =>
                /\ IsFileIn(call.dir, BACKUP)
                /\ IsArchiveFile(get_archive_name(call.dir))
                /\ repo[get_archive_name(call.dir)].ents = call.pre.ents
                /\ \A n \in Names \ {BACKUP} :
                      fs[call.dir].ents[n] = call.pre.ents[n]
    /\ (call.op = "idle" /\ done.op = "apply" /\ done.auto /\ done.snaps = 0) =>
          /\ done.copies = 0
          /\ fs[done.dir] = done.pre

\* C4, its case: an apply_diff with auto_backup is about to make its first
\* copy, after an apply_diff whose snapshot failed.
SnapshotBeforeCopyWitness ==
    /\ call.op = "apply" /\ call.auto /\ call.phase = "copy" /\ call.copies = 0
    /\ done.op = "apply" /\ done.auto /\ done.err = "OSError: make_archive"

\* C5: right after an apply_diff(S, D) that returned, on a D that existed,
\* find_diff(S, D) is empty, so that a second apply_diff(S, D) takes no
\* snapshot and copies nothing.
ApplyIdempotent ==
    (/\ call.op = "idle" /\ done.op = "apply" /\ done.err = "ok"
     /\ done.pre.exists)
    => DiffNames(done.src, done.dir) = {}

\* C6: every backup writes an archive file that was not in the repository
\* before: no call, running or returned, has overwritten an archive.
KeysUnique == call.fresh /\ done.fresh

\* C7, as claimed: every directory with a pointer file names an archive
\* that is in the repository and is a snapshot of that directory.
NoDanglingPointer ==
    \A d \in Dirs :
        IsFileIn(d, BACKUP) =>
            /\ IsArchiveFile(get_archive_name(d))
            /\ repo[get_archive_name(d)].of = d

\* C7, amended: every directory with a pointer file names an archive that
\* is in the repository.
PointerNamesArchive ==
    \A d \in Dirs :
        IsFileIn(d, BACKUP) => IsArchiveFile(get_archive_name(d))

\* C7, its case: a directory reverted to an archive given by name holds a
\* pointer file that names the snapshot of another directory.
PointerNamesArchiveWitness ==
    /\ call.op = "idle" /\ done.op = "revert" /\ done.err = "ok" /\ ~done.auto
    /\ IsFileIn(done.dir, BACKUP)
    /\ IsArchiveFile(get_archive_name(done.dir))
    /\ repo[get_archive_name(done.dir)].of # done.dir

\* C8: a sync takes its one snapshot before it copies anything, and none
\* while it goes through its sources: a sync that returned took exactly one.
OneSnapshotPerSync ==
    /\ (call.op = "sync" /\ call.phase = "snapshot") =>
          call.snaps = 0 /\ call.copies = 0 /\ fs[call.dir] = call.pre
    /\ (call.op = "sync" /\ call.phase \in {"source", "copy"}) => call.snaps = 1
    /\ (done.op = "sync" /\ done.err = "ok") => done.snaps = 1

\* C8, its case: a sync of a manifest of two sources has returned after
\* copying from both.
OneSnapshotPerSyncWitness ==
    /\ call.op = "idle" /\ done.op = "sync" /\ done.err = "ok"
    /\ Len(SplitLines(done.pre.ents[SYNC].data)) = 2
    /\ done.copies >= 3

\* The manifest of a directory as the call found it is missing, empty or
\* lists something that is not a directory.
BadManifest(pre) ==
    \/ ~pre.exists
    \/ pre.ents[SYNC].kind # "file"
    \/ SplitLines(pre.ents[SYNC].data) = <<>>
    \/ \E i \in 1..Len(SplitLines(pre.ents[SYNC].data)) :
          ~IsDir(SplitLines(pre.ents[SYNC].data)[i])

\* C9: a sync whose manifest is missing, empty or lists a source that is
\* not a directory fails and alters nothing: it never gets past its
\* validation, takes no snapshot, copies nothing and leaves the directory
\* as it was.
SyncValidatesFirst ==
    /\ call.op = "sync" => ~BadManifest(call.pre)
    /\ (call.op = "idle" /\ done.op = "sync" /\ BadManifest(done.pre)) =>
          /\ done.err \in {"CpException: sync file missing",
                           "CpException: sync file empty",
                           "CpException: invalid source dir"}
          /\ done.snaps = 0
          /\ done.copies = 0
          /\ fs[done.dir] = done.pre

\* C9, its case: a sync has failed on a manifest whose first source is a
\* directory and whose second is not.
SyncValidatesFirstWitness ==
    /\ call.op = "idle" /\ done.op = "sync"
    /\ done.err = "CpException: invalid source dir"
    /\ Len(SplitLines(done.pre.ents[SYNC].data)) = 2
    /\ IsDir(SplitLines(done.pre.ents[SYNC].data)[1])
    /\ ~IsDir(SplitLines(done.pre.ents[SYNC].data)[2])

\* C10: revert removes the directory only once the archive has been found;
\* a revert of an existing directory whose archive, given or resolved from
\* the pointer file, is not in the repository raises the archive-unavailable
\* error and leaves the directory, pointer file included, as it was.
RevertFailsCleanly ==
    /\ call.op = "revert" => IsArchiveFile(call.arch)
    /\ (/\ call.op = "idle" /\ done.op = "revert" /\ done.pre.exists
        /\ done.arch # NoArchive /\ ~IsArchiveFile(done.arch)) =>
          /\ done.err = "CpException: archive unavailable"
          /\ fs[done.dir] = done.pre

\* C10, its case: a revert without an explicit archive has failed on a
\* pointer file that names an archive deleted from the repository.
RevertFailsCleanlyWitness ==
    /\ call.op = "idle" /\ done.op = "revert" /\ done.auto
    /\ done.err = "CpException: archive unavailable"
    /\ HasPointer(fs, done.dir)

\* The call c is, or was, in an apply_diff that computed a diff.
InApply(c) == c.op \in {"apply", "sync"} /\ c.diff # {}

\* The destination of apply_diff has kept the entries it had when the call
\* c found it, and those outside the diff (its pointer file apart) are as
\* they were.
OnlyAddsOrOverwrites(c) ==
    \A n \in Names :
        /\ c.was.ents[n].kind # "none" => fs[c.dir].ents[n].kind # "none"
        /\ n \notin c.diff \cup {BACKUP} => fs[c.dir].ents[n] = c.was.ents[n]

\* Every name of the diff the call c computed (it was given none) is the
\* name of an entry of its source: none is the name of an entry that only
\* the destination has.
DiffFromSource(c) ==
    (c.op = "sync" \/ c.list = None) =>
        \A n \in c.diff : fs[c.src].ents[n].kind # "none"

\* C11: apply_diff(S, D) removes no entry of D and leaves the entries of D
\* that are not in the diff, the pointer file apart, as they were, while it
\* runs and when it has ended; an entry that only D has is never in the
\* diff find_diff(S, D) gave it.
ApplyOnlyAdds ==
    /\ InApply(call) => OnlyAddsOrOverwrites(call) /\ DiffFromSource(call)
    /\ (call.op = "idle" /\ InApply(done)) =>
          OnlyAddsOrOverwrites(done) /\ DiffFromSource(done)

\* C11, its case: an apply_diff has copied into a destination that had an
\* entry its source lacks, and an entry of the same name whose content it
\* has overwritten.
ApplyOnlyAddsWitness ==
    /\ call.op = "idle" /\ done.op = "apply" /\ done.err = "ok"
    /\ done.copies >= 1
    /\ \E n \in Names \ {BACKUP} :
          done.was.ents[n].kind # "none" /\ fs[done.src].ents[n].kind = "none"
    /\ \E n \in done.diff :
          /\ done.was.ents[n].kind = "file"
          /\ fs[done.dir].ents[n].data # done.was.ents[n].data

\* C12: for a destination D that does not exist, find_diff(S, D) is the
\* names of the entries of S, and an apply_diff(S, D) that found D missing
\* and S not empty has returned without error, with D a directory that
\* holds every entry of S.
ApplyCreatesDestination ==
    /\ \A s \in Dirs, d \in Dirs :
          (IsDir(s) /\ ~IsDir(d)) => DiffNames(s, d) = ListDir(s)
    /\ (/\ call.op = "idle" /\ done.op = "apply" /\ ~done.pre.exists
        /\ IsDir(done.src) /\ ListDir(done.src) # {}) =>
          /\ done.err = "ok"
          /\ IsDir(done.dir)
          /\ \A n \in ListDir(done.src) :
                fs[done.dir].ents[n] = fs[done.src].ents[n]

\* C13: right after a generate_sync_file(D, sources) that returned, sync(D)
\* reads back the absolute paths of the sources, all of them and in their
\* order, and passes its validation, so that it applies the diff of each.
ManifestRoundTrip ==
    (call.op = "idle" /\ done.op = "mksync" /\ done.err = "ok") =>
        /\ SyncSources(done.dir) = [i \in 1..Len(done.given) |-> abspath(done.given[i])]
        /\ SyncErr(done.dir) = "ok"

\* The content of a pointer file is a key as backup produces them.
WellFormedKey(data) ==
    \E d \in Dirs, t \in 1..MaxTick : data = encode_dir_name(d, t)

\* The errors that do not tell a corrupt pointer from other outcomes.
NotPointerCorrupt ==
    {"ok", "CpException: backup file missing",
     "CpException: archive unavailable", "IOError: ZipFile"}

\* C14: a revert that reads the pointer of an existing directory fails with
\* the pointer-missing error when there is no pointer file and with an
\* error of its own when the pointer file is empty or does not hold a key;
\* no revert goes on with an archive name that is not a key.
PointerErrors ==
    /\ (call.op = "revert" /\ call.auto) =>
          \E d \in Dirs, t \in 1..MaxTick :
              call.arch = encode_dir_name(d, t) \o ZipExt
    /\ (call.op = "idle" /\ done.op = "revert" /\ done.auto /\ done.pre.exists) =>
          LET p == done.pre.ents[BACKUP] IN
          /\ p.kind # "file" => done.err = "CpException: backup file missing"
          /\ (p.kind = "file" /\ ~WellFormedKey(p.data)) =>
                done.err \notin NotPointerCorrupt

\* C15: right after a set_tag(t, D, A) that succeeded, resolve_tag(t) gives
\* (D, A), whatever t named before; a resolve_tag has returned the pair the
\* last successful set_tag of its tag gave it, and has failed with
\* TagNotFound when no set_tag of that tag had succeeded.
TagResolution ==
    /\ (call.op = "idle" /\ done.op = "set_tag" /\ done.err = "ok") =>
          resolve_tag(done.tag) =
              [err |-> "ok", directory |-> done.dir, archive |-> done.arch]
    /\ (call.op = "idle" /\ done.op = "resolve_tag") =>
          IF done.tag \in DOMAIN tags
          THEN done.err = "ok" /\ done.dir = tags[done.tag].directory
                               /\ done.arch = tags[done.tag].archive
          ELSE done.err = "TagNotFound"

\* C15, its case: a set_tag has succeeded on a tag that was in the index,
\* while the other tag was never set.
TagResolutionWitness ==
    /\ call.op = "idle" /\ done.op = "set_tag" /\ done.err = "ok"
    /\ done.had
    /\ DOMAIN tags = {done.tag}

\* C16: between calls, backup_history(D) of every existing directory D
\* returns, and no archive is twice in the sequence it returns: the chain of
\* embedded pointers does not come back to an archive it has passed.
HistoryTerminates ==
    call.op = "idle" =>
        \A d \in Dirs :
            IsDir(d) =>
                LET h == backup_history(d) IN
                /\ h.err = "ok"
                /\ \A i \in 1..Len(h.hist), j \in 1..Len(h.hist) :
                      h.hist[i].path = h.hist[j].path => i = j

\* A step of a call of revert: its first step, from no call in progress,
\* or a later one.
RevertStep ==
    \/ call.op = "revert"
    \/ /\ call.op = "idle" /\ ops' = ops + 1
       /\ call'.op = "revert" \/ (call'.op = "idle" /\ done'.op = "revert")

\* C17: no step of a revert, with or without an explicit archive, ending
\* well or not, adds an archive to the repository, removes one or changes
\* one: the contents the directory had are archived nowhere by it.
RevertLeavesRepository ==
    [][RevertStep => (repo' = repo /\ repoDir' = repoDir)]_vars

\* C17, its case: a revert has replaced the contents of a directory, and
\* no archive of the repository holds the contents it had.
RevertLeavesRepositoryWitness ==
    /\ call.op = "idle" /\ done.op = "revert" /\ done.err = "ok"
    /\ Contents(fs[done.dir]) # Contents(done.pre)
    /\ \A k \in DOMAIN repo :
          Contents([exists |-> TRUE, ents |-> repo[k].ents]) # Contents(done.pre)

\* The archive file names the chain of pointers from the name k passes in
\* at most n steps, k included.
RECURSIVE ChainFrom(_, _)
ChainFrom(k, n) ==
    IF n = 0 \/ k \notin DOMAIN repo \/ repo[k].ents[BACKUP].kind # "file"
    THEN {k}
    ELSE {k} \cup ChainFrom(repo[k].ents[BACKUP].data \o ZipExt, n - 1)

\* The pointer of the directory d, or a pointer embedded in an archive of
\* its chain, names an archive that is not in the repository.
ChainBroken(d) ==
    \E k \in ChainFrom(fs[d].ents[BACKUP].data \o ZipExt, Cardinality(DOMAIN repo)) :
        k \notin DOMAIN repo

\* C18: between calls, backup_history(D) of an existing directory D
\* without a pointer file returns the empty sequence, and that of a
\* directory whose chain of pointers names an archive that is not in the
\* repository raises an error and returns nothing.
HistoryErrors ==
    call.op = "idle" =>
        \A d \in Dirs :
            IsDir(d) =>
                /\ ~IsFileIn(d, BACKUP) =>
                      backup_history(d) = [err |-> "ok", hist |-> <<>>]
                /\ (IsFileIn(d, BACKUP) /\ ChainBroken(d)) =>
                      backup_history(d).err = "OSError: getctime"

\* C18, its case: the pointer of a directory names an archive that is in
\* the repository and embeds a pointer to one that was deleted, while
\* another directory has no pointer file.
HistoryErrorsWitness ==
    /\ call.op = "idle"
    /\ \E d \in Dirs :
          /\ IsFileIn(d, BACKUP) /\ ChainBroken(d)
          /\ IsArchiveFile(get_archive_name(d))
    /\ \E d \in Dirs : IsDir(d) /\ ~IsFileIn(d, BACKUP)

\* C19: after N calls backup(D) in a row on a directory that had no pointer
\* file, the i-th revert(D) in a row (i <= N) has succeeded and has given D
\* the contents the (N-i+1)-th backup found, and backup_history(D) then has
\* N-i entries; the (N+1)-th has failed with the pointer-missing error and
\* has left D as it was.
SuccessiveReverts ==
    (call.op = "idle" /\ walk.reverts >= 1) =>
        LET N == Len(walk.pres)
            i == walk.reverts
        IN  /\ i <= N =>
                  /\ done.err = "ok"
                  /\ Contents(fs[walk.dir]) = Contents(walk.pres[N - i + 1])
                  /\ backup_history(walk.dir).err = "ok"
                  /\ Len(backup_history(walk.dir).hist) = N - i
            /\ i = N + 1 =>
                  /\ done.err = "CpException: backup file missing"
                  /\ fs[walk.dir] = done.pre

\* C20: decode_dir_name(encode_dir_name(p) + ".zip") has returned p for
\* every path p it was called with; a revert made by manual_revert reverts
\* the directory its archive is a snapshot of, and manual_revert does not
\* fail on decoding the names of the archives in the repository.
NamesDecode ==
    /\ (call.op = "idle" /\ done.op = "decode") =>
          done.err = "ok" /\ done.dir = done.src
    /\ (call.op = "revert" /\ call.manual) => repo[call.arch].of = call.dir
    /\ (call.op = "idle" /\ done.manual) =>
          /\ done.err # "ValueError: decode"
          /\ done.arch \in DOMAIN repo => repo[done.arch].of = done.dir

====
